---- MODULE Spec2Model ----
(***************************************************************************)
(* The simulated IEC 61850 server of src/src/iecApi: the object tree       *)
(* (server, logical device, logical node, data object, data attribute),    *)
(* datasets, report control blocks (RCB) and the change notification of    *)
(* DataAttribute.value.                                                    *)
(*                                                                         *)
(* Python objects live in arenas: lds, lns, dos, das, lists and rcbs are   *)
(* sequences of records and an object is named by its index; 0 stands for  *)
(* None.  A Python dict is a sequence of <<key, value>> pairs in insertion *)
(* order.  A Python str is a sequence of tokens, where the separators "/"  *)
(* and "." are tokens of their own, so that formatting and splitting a     *)
(* path are computed token by token.                                       *)
(*                                                                         *)
(* Spec     the reporting machinery on the tree that build_mock_server     *)
(*          builds (plus a second logical node).                           *)
(* SpecTree the construction of the tree and the addressing of attributes. *)
(* SpecDs   datasets created again and again, and the lists behind them.   *)
(* SpecClient the client gateway of src/src/iecApi/client.py on the server *)
(*          of build_mock_server.                                          *)
(* SpecQuality writes to attributes whose quality field a data source set. *)
(* SpecThreads two threads that write attributes, a step per statement.    *)
(* SpecReentrant sinks that write to the server from inside a report.      *)
(* SpecModbus the Modbus client wrapper of src/pyModbus/sim_modbus.py: the *)
(*          lock, the reconnect loop and the requests of concurrent tasks; *)
(*          FairModbus adds the progress the asyncio event loop gives.     *)
(***************************************************************************)
EXTENDS Integers, Sequences, FiniteSets, TLC

VARIABLES devices, lds, lns, dos, das, lists, rcbs, now, last,
          connected_server, threads, mb

vars == <<devices, lds, lns, dos, das, lists, rcbs, now, last,
          connected_server, threads, mb>>

\* ---------------------------------------------------------------- bounds
\* the number of list objects handed to create_dataset
MaxLists == 1
\* the number of ReportControlBlock objects created
MaxRcb == 2
\* the last reading of the clock (time.time())
MaxTime == 1

\* ---------------------------------------------------------------- values
\* A Python value: its type and its number (voltages in tenths of a volt).
\* 220 == 220.0 in Python although the two are different objects.
F(n) == [t |-> "float", n |-> n]
I(n) == [t |-> "int", n |-> n]

\* Python's != on values (model.py:30): by value, never by identity
PyNe_identity(v, w) == v # w
PyNe(v, w) == v.n # w.n

\* ---------------------------------------------------------------- dict
DictHas(d, k) == \E i \in 1..Len(d) : d[i][1] = k
DictGet(d, k) == d[CHOOSE i \in 1..Len(d) : d[i][1] = k][2]
DictSet(d, k, v) ==
    IF DictHas(d, k)
    THEN [i \in 1..Len(d) |-> IF d[i][1] = k THEN <<k, v>> ELSE d[i]]
    ELSE Append(d, <<k, v>>)
DictKeys(d) == [i \in 1..Len(d) |-> d[i][1]]

\* ---------------------------------------------------------------- paths
\* get_full_path of each level (model.py:110, 92, 58, 38)
LdPath(d) == lds[d].name
LnPath(l) == LdPath(lns[l].parent) \o <<"/">> \o lns[l].name
DoPath(o) == LnPath(dos[o].parent) \o <<".">> \o dos[o].name
DaPath(a) ==
    IF das[a].parent # 0
    THEN DoPath(das[a].parent) \o <<".">> \o das[a].name
    ELSE das[a].name

\* a split at the last sep (str.rsplit(sep, 1))
Split1_last(s, sep) ==
    IF \E i \in 1..Len(s) : s[i] = sep
    THEN LET i == CHOOSE i \in 1..Len(s) :
                      s[i] = sep /\ \A j \in (i + 1)..Len(s) : s[j] # sep
         IN  <<SubSeq(s, 1, i - 1), SubSeq(s, i + 1, Len(s))>>
    ELSE <<s>>
\* str.split(sep, 1): <<head, tail>> at the first sep, <<s>> when there is none
Split1(s, sep) ==
    IF \E i \in 1..Len(s) : s[i] = sep
    THEN LET i == CHOOSE i \in 1..Len(s) :
                      s[i] = sep /\ \A j \in 1..(i - 1) : s[j] # sep
         IN  <<SubSeq(s, 1, i - 1), SubSeq(s, i + 1, Len(s))>>
    ELSE <<s>>

\* a resolver that answers a failed lookup with the first attribute created
GetAttributeByPath_default(path) ==
    IF Len(das) > 0 THEN 1 ELSE 0
\* IecServer.get_attribute_by_path: the attribute, or 0 for None
GetAttributeByPath(path) ==
    LET p1 == Split1(path, "/") IN
    IF Len(p1) # 2 THEN 0 ELSE
    LET p2 == Split1(p1[2], ".") IN
    IF Len(p2) # 2 THEN 0 ELSE
    LET p3 == Split1(p2[2], ".") IN
    IF Len(p3) # 2 THEN 0 ELSE
    IF ~DictHas(devices, p1[1]) THEN 0 ELSE
    LET ld == lds[DictGet(devices, p1[1])] IN
    IF ~DictHas(ld.nodes, p2[1]) THEN 0 ELSE
    LET ln == lns[DictGet(ld.nodes, p2[1])] IN
    IF ~DictHas(ln.objects, p3[1]) THEN 0 ELSE
    LET do == dos[DictGet(ln.objects, p3[1])] IN
    IF ~DictHas(do.attributes, p3[2]) THEN 0 ELSE
    DictGet(do.attributes, p3[2])

\* ---------------------------------------------------------------- objects
\* DataAttribute.__init__
NewDa(name, value, parent) ==
    [name |-> name, value |-> value, timestamp |-> now, quality |-> "good",
     parent |-> parent, trigger_callbacks |-> <<>>]
\* DataObject.__init__
NewDo(name, parent) == [name |-> name, parent |-> parent, attributes |-> <<>>]
\* LogicalNode.__init__
NewLn(name, parent) ==
    [name |-> name, parent |-> parent, objects |-> <<>>, datasets |-> <<>>,
     reports |-> <<>>]
\* LogicalDevice.__init__
NewLd(name) == [name |-> name, nodes |-> <<>>]

\* ReportControlBlock.__init__, the fields
NewRcb_enabled(name, rpt_id, dataset, parent) ==
    [name |-> name, rpt_id |-> rpt_id, dataset |-> dataset, parent |-> parent,
     enabled |-> TRUE, client_callback |-> "None"]
NewRcb(name, rpt_id, dataset, parent) ==
    [name |-> name, rpt_id |-> rpt_id, dataset |-> dataset, parent |-> parent,
     enabled |-> FALSE, client_callback |-> "None"]

\* the number of times a occurs in the list items
Occurrences(items, a) == Cardinality({i \in 1..Len(items) : items[i] = a})

RECURSIVE Repeat(_, _)
Repeat(x, n) == IF n = 0 THEN <<>> ELSE <<x>> \o Repeat(x, n - 1)

\* a subscription to every attribute of the server, member or not
Subscribe_all(attrs, items, r) ==
    [a \in DOMAIN attrs |->
        [attrs[a] EXCEPT !.trigger_callbacks = Append(@, r)]]
\* ReportControlBlock.__init__, the loop: on_data_change of r is appended to
\* the callbacks of each member, once per occurrence
Subscribe(attrs, items, r) ==
    [a \in DOMAIN attrs |->
        [attrs[a] EXCEPT !.trigger_callbacks = @ \o Repeat(r, Occurrences(items, a))]]

\* ---------------------------------------------------------------- reporting
\* the sinks a caller may register (any Callable)
Sinks == {"s1", "s2"}
\* the values written by the data source; 2255 is the demo's new voltage
WriteValues == {I(2200), F(2255)}
\* names
DatasetNames == {"dsMeas"}
ReportNames == {"urcb01"}
\* the report id the demo gives a report of logical node l (demo.py:43)
ReportIdOf(l) ==
    IF l = 1 THEN "MyIED/Protection/MMXU1$RP$urcb01"
    ELSE "MyIED/Protection/XCBR1$RP$urcb01"

\* report_data = {da.get_full_path(): da.value for da in self.dataset}
RECURSIVE BuildData(_, _, _)
BuildData(items, attrs, acc) ==
    IF items = <<>> THEN acc
    ELSE BuildData(Tail(items), attrs,
                   DictSet(acc, DaPath(Head(items)), attrs[Head(items)].value))

\* ReportControlBlock.on_data_change(changed_da), with the attributes as they
\* are when it runs: whether the sink was called, the call, and whether the
\* sink raised (failing: the sinks that raise during this write)
OnDataChange_onlyChanged(r, changed_da, attrs, failing) ==
    IF rcbs[r].enabled /\ rcbs[r].client_callback # "None"
    THEN [called |-> TRUE,
          call |-> [rcb |-> r, sink |-> rcbs[r].client_callback,
                    rpt_id |-> rcbs[r].rpt_id,
                    data |-> BuildData(<<changed_da>>, attrs, <<>>),
                    reason |-> "dchg"],
          raised |-> rcbs[r].client_callback \in failing]
    ELSE [called |-> FALSE, raised |-> FALSE]
OnDataChange(r, changed_da, attrs, failing) ==
    IF rcbs[r].enabled /\ rcbs[r].client_callback # "None"
    THEN [called |-> TRUE,
          call |-> [rcb |-> r, sink |-> rcbs[r].client_callback,
                    rpt_id |-> rcbs[r].rpt_id,
                    data |-> BuildData(lists[rcbs[r].dataset], attrs, <<>>),
                    reason |-> "dchg"],
          raised |-> rcbs[r].client_callback \in failing]
    ELSE [called |-> FALSE, raised |-> FALSE]

\* for callback in self.trigger_callbacks: callback(self)  (model.py:35-36):
\* the sink calls made, the callbacks entered (notified), and whether an
\* exception left the loop; an exception raised by a callback ends the loop
RECURSIVE RunCallbacks(_, _, _, _)
RunCallbacks(cbs, a, attrs, failing) ==
    IF cbs = <<>> THEN [calls |-> <<>>, notified |-> <<>>, raised |-> FALSE]
    ELSE LET res == OnDataChange(Head(cbs), a, attrs, failing)
             made == IF res.called THEN <<res.call>> ELSE <<>>
         IN  IF res.raised
             THEN [calls |-> made, notified |-> <<Head(cbs)>>, raised |-> TRUE]
             ELSE LET rest == RunCallbacks(Tail(cbs), a, attrs, failing) IN
                  [calls |-> made \o rest.calls,
                   notified |-> <<Head(cbs)>> \o rest.notified,
                   raised |-> rest.raised]

\* a setter that runs the callbacks before it stores the value
SetValue_notifyFirst(a, new_val, failing) ==
    /\ IF PyNe(das[a].value, new_val)
       THEN LET run == RunCallbacks(das[a].trigger_callbacks, a, das, failing)
            IN  /\ das' = [das EXCEPT ![a].value = new_val, ![a].timestamp = now]
                /\ last' = [op |-> "write", da |-> a, val |-> new_val,
                            before |-> das[a], changed |-> TRUE,
                            raised |-> run.raised, calls |-> run.calls,
                            notified |-> run.notified]
       ELSE /\ das' = das
            /\ last' = [op |-> "write", da |-> a, val |-> new_val,
                        before |-> das[a], changed |-> FALSE,
                        raised |-> FALSE, calls |-> <<>>, notified |-> <<>>]
    /\ UNCHANGED <<mb, threads, connected_server, devices, lds, lns, dos, lists, rcbs, now>>
\* DataAttribute.value setter (model.py:25-36)
SetValue(a, new_val, failing) ==
    /\ IF PyNe(das[a].value, new_val)
       THEN LET attrs == [das EXCEPT ![a].value = new_val, ![a].timestamp = now]
                run == RunCallbacks(das[a].trigger_callbacks, a, attrs, failing)
            IN  /\ das' = attrs
                /\ last' = [op |-> "write", da |-> a, val |-> new_val,
                            before |-> das[a], changed |-> TRUE,
                            raised |-> run.raised, calls |-> run.calls,
                            notified |-> run.notified]
       ELSE /\ das' = das
            /\ last' = [op |-> "write", da |-> a, val |-> new_val,
                        before |-> das[a], changed |-> FALSE,
                        raised |-> FALSE, calls |-> <<>>, notified |-> <<>>]
    /\ UNCHANGED <<mb, threads, connected_server, devices, lds, lns, dos, lists, rcbs, now>>

\* LogicalNode.create_dataset (model.py:78-81); da_list is a new list object
CreateDataset(l, name, da_list) ==
    /\ lists' = Append(lists, da_list)
    /\ lns' = [lns EXCEPT ![l].datasets = DictSet(@, name, Len(lists) + 1)]
    /\ last' = [op |-> "create_dataset", ln |-> l, name |-> name,
                list |-> Len(lists) + 1]
    /\ UNCHANGED <<mb, threads, connected_server, devices, lds, dos, das, rcbs, now>>

\* create_report that looks the dataset name up on every node of the server
CreateReport_anyNode(l, name, dataset_name, rpt_id) ==
    IF \A k \in 1..Len(lns) : ~DictHas(lns[k].datasets, dataset_name)
    THEN /\ last' = [op |-> "create_report", ln |-> l, name |-> name,
                     dataset_name |-> dataset_name, error |-> "ValueError"]
         /\ UNCHANGED <<mb, threads, connected_server, devices, lds, lns, dos, das, lists, rcbs, now>>
    ELSE LET r == Len(rcbs) + 1
             k == CHOOSE k \in 1..Len(lns) : DictHas(lns[k].datasets, dataset_name)
             ds == DictGet(lns[k].datasets, dataset_name)
         IN  /\ Len(rcbs) < MaxRcb
             /\ rcbs' = Append(rcbs, NewRcb(name, rpt_id, ds, l))
             /\ das' = Subscribe(das, lists[ds], r)
             /\ lns' = [lns EXCEPT ![l].reports = DictSet(@, name, r)]
             /\ last' = [op |-> "create_report", ln |-> l, name |-> name,
                         dataset_name |-> dataset_name, error |-> "none",
                         rcb |-> r]
             /\ UNCHANGED <<mb, threads, connected_server, devices, lds, dos, lists, now>>

\* LogicalNode.create_report (model.py:83-90)
CreateReport(l, name, dataset_name, rpt_id) ==
    IF ~DictHas(lns[l].datasets, dataset_name)
    THEN /\ last' = [op |-> "create_report", ln |-> l, name |-> name,
                     dataset_name |-> dataset_name, error |-> "ValueError"]
         /\ UNCHANGED <<mb, threads, connected_server, devices, lds, lns, dos, das, lists, rcbs, now>>
    ELSE LET r == Len(rcbs) + 1
             ds == DictGet(lns[l].datasets, dataset_name)
         IN  /\ Len(rcbs) < MaxRcb
             /\ rcbs' = Append(rcbs, NewRcb(name, rpt_id, ds, l))
             /\ das' = Subscribe(das, lists[ds], r)
             /\ lns' = [lns EXCEPT ![l].reports = DictSet(@, name, r)]
             /\ last' = [op |-> "create_report", ln |-> l, name |-> name,
                         dataset_name |-> dataset_name, error |-> "none",
                         rcb |-> r]
             /\ UNCHANGED <<mb, threads, connected_server, devices, lds, dos, lists, now>>

\* ReportControlBlock.enable (model.py:163-166)
Enable(r, callback) ==
    /\ rcbs' = [rcbs EXCEPT ![r].client_callback = callback, ![r].enabled = TRUE]
    /\ last' = [op |-> "enable", rcb |-> r, callback |-> callback,
                before |-> rcbs[r]]
    /\ UNCHANGED <<mb, threads, connected_server, devices, lds, lns, dos, das, lists, now>>

\* rcb.disable(): ReportControlBlock (model.py:147-177) defines no such
\* method, the call raises AttributeError and changes nothing
Disable(r) ==
    /\ last' = [op |-> "disable", rcb |-> r, error |-> "AttributeError",
                before |-> rcbs[r]]
    /\ UNCHANGED <<mb, threads, connected_server, devices, lds, lns, dos, das, lists, rcbs, now>>

\* the clock read by time.time() moves on
Tick ==
    /\ now < MaxTime
    /\ now' = now + 1
    /\ UNCHANGED <<mb, threads, connected_server, devices, lds, lns, dos, das, lists, rcbs, last>>

\* names of the demo (demo.py:19-34)
PhsA == <<"phsA", ".", "cVal", ".", "mag", ".", "f">>
PhsB == <<"phsB", ".", "cVal", ".", "mag", ".", "f">>

\* the lists a caller can hand to create_dataset
DaLists == {<<>>, <<1>>, <<1, 2>>, <<1, 1>>}

\* the server after build_mock_server's tree is built (demo.py:16-35) and a
\* second logical node XCBR1 is added to the logical device
Init ==
    /\ now = 0
    /\ mb = <<>>
    /\ threads = <<>>
    /\ connected_server = 0
    /\ devices = << <<(<<"Protection">>), 1>> >>
    /\ lds = << [name |-> <<"Protection">>,
                 nodes |-> << <<(<<"MMXU1">>), 1>>, <<(<<"XCBR1">>), 2>> >>] >>
    /\ lns = << [name |-> <<"MMXU1">>, parent |-> 1,
                 objects |-> << <<(<<"PhV">>), 1>> >>,
                 datasets |-> <<>>, reports |-> <<>>],
                [name |-> <<"XCBR1">>, parent |-> 1, objects |-> <<>>,
                 datasets |-> <<>>, reports |-> <<>>] >>
    /\ dos = << [name |-> <<"PhV">>, parent |-> 1,
                 attributes |-> << <<PhsA, 1>>, <<PhsB, 2>> >>] >>
    /\ das = << [name |-> PhsA, value |-> F(2200), timestamp |-> 0,
                 quality |-> "good", parent |-> 1, trigger_callbacks |-> <<>>],
                [name |-> PhsB, value |-> F(2195), timestamp |-> 0,
                 quality |-> "good", parent |-> 1, trigger_callbacks |-> <<>>] >>
    /\ lists = <<>>
    /\ rcbs = <<>>
    /\ last = [op |-> "init"]

Next ==
    \/ \E a \in 1..Len(das), v \in WriteValues, failing \in SUBSET Sinks :
          SetValue(a, v, failing)
    \/ \E l \in 1..Len(lns), n \in DatasetNames, items \in DaLists :
          Len(lists) < MaxLists /\ CreateDataset(l, n, items)
    \/ \E l \in 1..Len(lns), n \in ReportNames,
          d \in DatasetNames \cup {"dsNone"} :
          CreateReport(l, n, d, ReportIdOf(l))
    \/ \E r \in 1..Len(rcbs), cb \in Sinks : Enable(r, cb)
    \/ \E r \in 1..Len(rcbs) : Disable(r)
    \/ Tick

Spec == Init /\ [][Next]_vars

\* ---------------------------------------------------------------- tree
\* the number of objects created at each level of the tree
MaxNodes == 2

\* the names given to the children; a name is any str, separators included
LdNames == {<<"Protection">>, <<"Prot", "/", "A">>}
LnNames == {<<"MMXU1">>, <<"MMXU", ".", "1">>}
DoNames == {<<"PhV">>}
DaNames == {PhsA, <<"f">>, <<"q", "/", "f">>}

\* IecServer.add_ld (model.py:121-124)
AddLd(name) ==
    /\ Len(lds) < MaxNodes
    /\ lds' = Append(lds, NewLd(name))
    /\ devices' = DictSet(devices, name, Len(lds) + 1)
    /\ last' = [op |-> "add_ld", name |-> name, new |-> Len(lds) + 1]
    /\ UNCHANGED <<mb, threads, connected_server, lns, dos, das, lists, rcbs, now>>

\* LogicalDevice.add_ln (model.py:105-108)
AddLn(d, name) ==
    /\ Len(lns) < MaxNodes
    /\ lns' = Append(lns, NewLn(name, d))
    /\ lds' = [lds EXCEPT ![d].nodes = DictSet(@, name, Len(lns) + 1)]
    /\ last' = [op |-> "add_ln", parent |-> d, name |-> name, new |-> Len(lns) + 1]
    /\ UNCHANGED <<mb, threads, connected_server, devices, dos, das, lists, rcbs, now>>

\* LogicalNode.add_do (model.py:73-76)
AddDo(l, name) ==
    /\ Len(dos) < MaxNodes
    /\ dos' = Append(dos, NewDo(name, l))
    /\ lns' = [lns EXCEPT ![l].objects = DictSet(@, name, Len(dos) + 1)]
    /\ last' = [op |-> "add_do", parent |-> l, name |-> name, new |-> Len(dos) + 1]
    /\ UNCHANGED <<mb, threads, connected_server, devices, lds, das, lists, rcbs, now>>

\* DataObject.add_da (model.py:53-56)
AddDa(o, name, value) ==
    /\ Len(das) < MaxNodes
    /\ das' = Append(das, NewDa(name, value, o))
    /\ dos' = [dos EXCEPT ![o].attributes = DictSet(@, name, Len(das) + 1)]
    /\ last' = [op |-> "add_da", parent |-> o, name |-> name, new |-> Len(das) + 1]
    /\ UNCHANGED <<mb, threads, connected_server, devices, lds, lns, lists, rcbs, now>>

\* the exception caught by get_attribute_by_path (model.py:139): ValueError
\* when a split yields one part and the unpacking fails, KeyError with the
\* key of the first dict lookup that fails, "none" when nothing is raised
CaughtException(path) ==
    LET p1 == Split1(path, "/") IN
    IF Len(p1) # 2 THEN <<"ValueError">> ELSE
    LET p2 == Split1(p1[2], ".") IN
    IF Len(p2) # 2 THEN <<"ValueError">> ELSE
    LET p3 == Split1(p2[2], ".") IN
    IF Len(p3) # 2 THEN <<"ValueError">> ELSE
    IF ~DictHas(devices, p1[1]) THEN <<"KeyError", p1[1]>> ELSE
    LET ld == lds[DictGet(devices, p1[1])] IN
    IF ~DictHas(ld.nodes, p2[1]) THEN <<"KeyError", p2[1]>> ELSE
    LET ln == lns[DictGet(ld.nodes, p2[1])] IN
    IF ~DictHas(ln.objects, p3[1]) THEN <<"KeyError", p3[1]>> ELSE
    LET do == dos[DictGet(ln.objects, p3[1])] IN
    IF ~DictHas(do.attributes, p3[2]) THEN <<"KeyError", p3[2]>> ELSE
    <<"none">>

\* the paths a caller asks for: the full path of every attribute created,
\* the demo's path (demo.py:69), and strings without "/" or without "."
ResolvePaths ==
    {DaPath(a) : a \in 1..Len(das)} \cup
    {<<"Protection", "/", "MMXU1", ".", "PhV", ".">> \o PhsA,
     <<"Protection">>, <<"Protection", "/", "MMXU1">>,
     <<"Protection", "/", "MMXU1", ".", "PhV">>}

\* a call of IecServer.get_attribute_by_path (model.py:126-141): the
\* exception is caught inside, the call returns the attribute or None
Resolve(path) ==
    /\ last' = [op |-> "resolve", path |-> path,
                result |-> GetAttributeByPath(path),
                caught |-> CaughtException(path), raised |-> FALSE]
    /\ UNCHANGED <<mb, threads, connected_server, devices, lds, lns, dos, das, lists, rcbs, now>>

\* IecServer.__init__ (model.py:117-119): a server without devices
InitTree ==
    /\ now = 0
    /\ mb = <<>>
    /\ threads = <<>>
    /\ connected_server = 0
    /\ devices = <<>>
    /\ lds = <<>>
    /\ lns = <<>>
    /\ dos = <<>>
    /\ das = <<>>
    /\ lists = <<>>
    /\ rcbs = <<>>
    /\ last = [op |-> "init"]

NextTree ==
    \/ \E n \in LdNames : AddLd(n)
    \/ \E d \in 1..Len(lds), n \in LnNames : AddLn(d, n)
    \/ \E l \in 1..Len(lns), n \in DoNames : AddDo(l, n)
    \/ \E o \in 1..Len(dos), n \in DaNames : AddDa(o, n, F(2200))
    \/ \E p \in ResolvePaths : Resolve(p)

SpecTree == InitTree /\ [][NextTree]_vars

\* ---------------------------------------------------------------- datasets
\* the number of list objects handed to create_dataset when datasets are
\* created again and again
MaxDsLists == 2
\* the longest list a caller grows
MaxListLen == 3

\* da_ids.append(da) (demo.py:29-35): the caller appends to a list it holds;
\* create_dataset stored that very list
MutateList(li, a) ==
    /\ Len(lists[li]) < MaxListLen
    /\ lists' = [lists EXCEPT ![li] = Append(@, a)]
    /\ last' = [op |-> "append", list |-> li, da |-> a]
    /\ UNCHANGED <<mb, threads, connected_server, devices, lds, lns, dos, das, rcbs, now>>

NextDs ==
    \/ \E l \in 1..Len(lns), n \in DatasetNames, items \in DaLists :
          Len(lists) < MaxDsLists /\ CreateDataset(l, n, items)
    \/ \E l \in 1..Len(lns), n \in ReportNames, d \in DatasetNames :
          CreateReport(l, n, d, ReportIdOf(l))
    \/ \E li \in 1..Len(lists), a \in 1..Len(das) : MutateList(li, a)

SpecDs == Init /\ [][NextDs]_vars

\* ---------------------------------------------------------------- client
\* the sink the client registers: IecClient._on_report_received, which
\* prints the report and raises nothing (client.py:75-85)
ClientSink == "_on_report_received"
\* the names a client asks for; Control, XCBR1 and urcb09 are never created
ClientLdNames == {<<"Protection">>, <<"Control">>}
ClientLnNames == {<<"MMXU1">>, <<"XCBR1">>}
ClientRcbNames == {"urcb01", "urcb02", "urcb09"}
\* the paths a client reads: the demo's (demo.py:69), phsB, an unknown
\* attribute and a string without "/"
ClientPaths ==
    {<<"Protection", "/", "MMXU1", ".", "PhV", ".">> \o PhsA,
     <<"Protection", "/", "MMXU1", ".", "PhV", ".">> \o PhsB,
     <<"Protection", "/", "MMXU1", ".", "PhV", ".", "q">>,
     <<"Protection">>}

\* IecClient.connect (client.py:15-21)
Connect ==
    /\ connected_server' = 1
    /\ last' = [op |-> "connect"]
    /\ UNCHANGED <<mb, threads, devices, lds, lns, dos, das, lists, rcbs, now>>

\* a read that hands back the pair (value, timestamp)
ReadValue_pair(path) ==
    /\ last' = [op |-> "read", path |-> path, raised |-> FALSE,
                returned |->
                    IF connected_server = 0 \/ GetAttributeByPath(path) = 0
                    THEN [kind |-> "None"]
                    ELSE [kind |-> "pair",
                          value |-> das[GetAttributeByPath(path)].value,
                          timestamp |-> das[GetAttributeByPath(path)].timestamp]]
    /\ UNCHANGED <<mb, threads, connected_server, devices, lds, lns, dos, das, lists, rcbs, now>>
\* IecClient.read_value (client.py:42-56): what the call returns; nothing
\* is raised on any branch
ReadValue(path) ==
    /\ last' = [op |-> "read", path |-> path, raised |-> FALSE,
                returned |->
                    IF connected_server = 0 \/ GetAttributeByPath(path) = 0
                    THEN [kind |-> "None"]
                    ELSE [kind |-> "value",
                          value |-> das[GetAttributeByPath(path)].value]]
    /\ UNCHANGED <<mb, threads, connected_server, devices, lds, lns, dos, das, lists, rcbs, now>>

\* an enable_report that enables every RCB of the logical node
ClientEnableReport_all(ld_name, ln_name, rcb_name) ==
    /\ connected_server # 0
    /\ DictHas(devices, ld_name)
    /\ DictHas(lds[DictGet(devices, ld_name)].nodes, ln_name)
    /\ rcbs' = [r \in DOMAIN rcbs |->
                  [rcbs[r] EXCEPT !.client_callback = ClientSink,
                                  !.enabled = TRUE]]
    /\ last' = [op |-> "enable_report", ld |-> ld_name, ln |-> ln_name,
                rcb_name |-> rcb_name, error |-> "none", raised |-> FALSE,
                before |-> rcbs]
    /\ UNCHANGED <<mb, threads, connected_server, devices, lds, lns, dos, das, lists, now>>
\* IecClient.enable_report (client.py:58-73): on a client that is not
\* connected, None.devices raises AttributeError, which is not caught; a
\* missing key raises KeyError, which is caught and printed
ClientEnableReport(ld_name, ln_name, rcb_name) ==
    LET rec(error, raised) ==
            [op |-> "enable_report", ld |-> ld_name, ln |-> ln_name,
             rcb_name |-> rcb_name, error |-> error, raised |-> raised,
             before |-> rcbs]
        found == /\ DictHas(devices, ld_name)
                 /\ DictHas(lds[DictGet(devices, ld_name)].nodes, ln_name)
                 /\ DictHas(lns[DictGet(lds[DictGet(devices, ld_name)].nodes,
                                        ln_name)].reports, rcb_name)
    IN
    IF connected_server = 0
    THEN /\ last' = rec("AttributeError", TRUE)
         /\ UNCHANGED <<mb, threads, connected_server, devices, lds, lns, dos, das, lists, rcbs, now>>
    ELSE IF ~found
    THEN /\ last' = rec("KeyError", FALSE)
         /\ UNCHANGED <<mb, threads, connected_server, devices, lds, lns, dos, das, lists, rcbs, now>>
    ELSE LET r == DictGet(lns[DictGet(lds[DictGet(devices, ld_name)].nodes,
                                      ln_name)].reports, rcb_name)
         IN  /\ rcbs' = [rcbs EXCEPT ![r].client_callback = ClientSink,
                                     ![r].enabled = TRUE]
             /\ last' = rec("none", FALSE)
             /\ UNCHANGED <<mb, threads, connected_server, devices, lds, lns, dos, das, lists, now>>

\* the concatenation of a sequence of sequences
RECURSIVE Flat(_)
Flat(qq) == IF qq = <<>> THEN <<>> ELSE Head(qq) \o Flat(Tail(qq))

\* the lines get_server_directory prints for a data object, a logical node
\* and a logical device registered under key (client.py:32-39): the loops
\* follow dict order
ListDo(key, o) ==
    << <<"DO", key>> >> \o
    [m \in 1..Len(dos[o].attributes) |->
        <<"DA", dos[o].attributes[m][1], das[dos[o].attributes[m][2]].value>>]
ListLn(key, l) ==
    << <<"LN", key>> >> \o
    Flat([k \in 1..Len(lns[l].objects) |->
             ListDo(lns[l].objects[k][1], lns[l].objects[k][2])])
ListLd(key, d) ==
    << <<"LD", key>> >> \o
    Flat([j \in 1..Len(lds[d].nodes) |->
             ListLn(lds[d].nodes[j][1], lds[d].nodes[j][2])])

\* a directory listing that stamps every attribute it prints
GetServerDirectory_touch ==
    /\ das' = [a \in DOMAIN das |-> [das[a] EXCEPT !.timestamp = now]]
    /\ last' = [op |-> "directory", connected |-> connected_server # 0,
                listing |->
                    IF connected_server = 0 THEN <<>>
                    ELSE Flat([i \in 1..Len(devices) |->
                                  ListLd(devices[i][1], devices[i][2])])]
    /\ UNCHANGED <<mb, threads, connected_server, devices, lds, lns, dos, lists, rcbs, now>>
\* IecClient.get_server_directory (client.py:23-40): the lines printed; a
\* client that is not connected prints an error and lists nothing
GetServerDirectory ==
    /\ last' = [op |-> "directory", connected |-> connected_server # 0,
                listing |->
                    IF connected_server = 0 THEN <<>>
                    ELSE Flat([i \in 1..Len(devices) |->
                                  ListLd(devices[i][1], devices[i][2])])]
    /\ UNCHANGED <<mb, threads, connected_server, devices, lds, lns, dos, das, lists, rcbs, now>>

\* the server build_mock_server returns (demo.py:11-45) and a client that
\* was just constructed (demo.py:57)
InitClient ==
    /\ now = 0
    /\ mb = <<>>
    /\ threads = <<>>
    /\ connected_server = 0
    /\ devices = << <<(<<"Protection">>), 1>> >>
    /\ lds = << [name |-> <<"Protection">>,
                 nodes |-> << <<(<<"MMXU1">>), 1>> >>] >>
    /\ lns = << [name |-> <<"MMXU1">>, parent |-> 1,
                 objects |-> << <<(<<"PhV">>), 1>> >>,
                 datasets |-> << <<"dsMeas", 1>> >>,
                 reports |-> << <<"urcb01", 1>> >>] >>
    /\ dos = << [name |-> <<"PhV">>, parent |-> 1,
                 attributes |-> << <<PhsA, 1>>, <<PhsB, 2>> >>] >>
    /\ das = << [name |-> PhsA, value |-> F(2200), timestamp |-> 0,
                 quality |-> "good", parent |-> 1, trigger_callbacks |-> <<1>>],
                [name |-> PhsB, value |-> F(2195), timestamp |-> 0,
                 quality |-> "good", parent |-> 1, trigger_callbacks |-> <<1>>] >>
    /\ lists = << <<1, 2>> >>
    /\ rcbs = << NewRcb("urcb01", ReportIdOf(1), 1, 1) >>
    /\ last = [op |-> "init"]

NextClient ==
    \/ Connect
    \/ \E p \in ClientPaths : ReadValue(p)
    \/ \E d \in ClientLdNames, l \in ClientLnNames, n \in ClientRcbNames :
          ClientEnableReport(d, l, n)
    \/ \E a \in 1..Len(das), v \in WriteValues : SetValue(a, v, {})
    \/ \E n \in {"urcb02"} : CreateReport(1, n, "dsMeas", ReportIdOf(1))
    \/ Tick
    \/ GetServerDirectory
    \/ AddLn(1, <<"XCBR1">>)
    \/ \E l \in 1..Len(lns) : AddDo(l, <<"Pos">>)

SpecClient == InitClient /\ [][NextClient]_vars

\* ---------------------------------------------------------------- quality
\* the strings a data source stores in the quality field
Qualities == {"good", "bad"}

\* da.quality = q: quality is a plain field of DataAttribute (model.py:17),
\* assigned by whoever holds the attribute
SetQuality(a, q) ==
    /\ das' = [das EXCEPT ![a].quality = q]
    /\ last' = [op |-> "set_quality", da |-> a, quality |-> q]
    /\ UNCHANGED <<mb, threads, connected_server, devices, lds, lns, dos, lists, rcbs, now>>

NextQuality ==
    \/ \E a \in 1..Len(das), q \in Qualities : SetQuality(a, q)
    \/ \E a \in 1..Len(das), v \in WriteValues : SetValue(a, v, {})
    \/ \E r \in 1..Len(rcbs), cb \in Sinks : Enable(r, cb)
    \/ Tick

SpecQuality == InitClient /\ [][NextQuality]_vars

\* ---------------------------------------------------------------- threads
\* The setter and on_data_change take no lock (model.py:25-36, 168-177):
\* when two threads write, their statements interleave.  A thread is idle,
\* or in the callback loop of the setter ("loop": cbs are the callbacks
\* still to run), or in the dict comprehension of on_data_change ("snapshot":
\* idx is the next member to read, data the entries built so far).
Writers == {"t1", "t2"}

IdleThread == [pc |-> "idle"]

\* the values the attributes hold together
ValuesOf(attrs) == [a \in DOMAIN attrs |-> attrs[a].value]

\* model.py:30-33: the comparison and the two assignments of the setter
ThreadWrite(t, a, new_val) ==
    /\ threads.proc[t].pc = "idle"
    /\ IF PyNe(das[a].value, new_val)
       THEN /\ das' = [das EXCEPT ![a].value = new_val, ![a].timestamp = now]
            /\ threads' = [proc |-> [threads.proc EXCEPT ![t] =
                               [pc |-> "loop", da |-> a,
                                cbs |-> das[a].trigger_callbacks]],
                           held |-> threads.held \cup {ValuesOf(das')}]
       ELSE /\ UNCHANGED <<mb, das, threads>>
    /\ last' = [op |-> "thread_write", thread |-> t, da |-> a, val |-> new_val]
    /\ UNCHANGED <<mb, connected_server, devices, lds, lns, dos, lists, rcbs, now>>

\* model.py:35-36 and 169: the next callback is entered; a disabled RCB
\* returns at once; after the last callback the setter returns
ThreadNotify(t) ==
    /\ threads.proc[t].pc = "loop"
    /\ LET p == threads.proc[t] IN
       IF p.cbs = <<>>
       THEN threads' = [threads EXCEPT !.proc[t] = IdleThread]
       ELSE LET r == Head(p.cbs) IN
            IF rcbs[r].enabled /\ rcbs[r].client_callback # "None"
            THEN threads' = [threads EXCEPT !.proc[t] =
                                [pc |-> "snapshot", da |-> p.da,
                                 cbs |-> Tail(p.cbs), rcb |-> r,
                                 idx |-> 1, data |-> <<>>]]
            ELSE threads' = [threads EXCEPT !.proc[t].cbs = Tail(p.cbs)]
    /\ last' = [op |-> "thread_notify", thread |-> t]
    /\ UNCHANGED <<mb, connected_server, devices, lds, lns, dos, das, lists, rcbs, now>>

\* model.py:172: one round of the dict comprehension reads one member
ThreadReadMember(t) ==
    /\ threads.proc[t].pc = "snapshot"
    /\ LET p == threads.proc[t]
           items == lists[rcbs[p.rcb].dataset]
       IN  /\ p.idx <= Len(items)
           /\ threads' = [threads EXCEPT
                  !.proc[t].data = DictSet(@, DaPath(items[p.idx]),
                                           das[items[p.idx]].value),
                  !.proc[t].idx = @ + 1]
    /\ last' = [op |-> "thread_read", thread |-> t]
    /\ UNCHANGED <<mb, connected_server, devices, lds, lns, dos, das, lists, rcbs, now>>

\* model.py:177: the sink is called with the finished snapshot
ThreadDeliver(t) ==
    /\ threads.proc[t].pc = "snapshot"
    /\ LET p == threads.proc[t] IN
       /\ p.idx > Len(lists[rcbs[p.rcb].dataset])
       /\ threads' = [threads EXCEPT !.proc[t] =
                         [pc |-> "loop", da |-> p.da, cbs |-> p.cbs]]
       /\ last' = [op |-> "report", thread |-> t, rcb |-> p.rcb,
                   sink |-> rcbs[p.rcb].client_callback,
                   rpt_id |-> rcbs[p.rcb].rpt_id, data |-> p.data,
                   reason |-> "dchg"]
    /\ UNCHANGED <<mb, connected_server, devices, lds, lns, dos, das, lists, rcbs, now>>

\* the server of build_mock_server, two idle threads holding its attributes
InitThreads ==
    /\ now = 0
    /\ mb = <<>>
    /\ connected_server = 0
    /\ devices = << <<(<<"Protection">>), 1>> >>
    /\ lds = << [name |-> <<"Protection">>,
                 nodes |-> << <<(<<"MMXU1">>), 1>> >>] >>
    /\ lns = << [name |-> <<"MMXU1">>, parent |-> 1,
                 objects |-> << <<(<<"PhV">>), 1>> >>,
                 datasets |-> << <<"dsMeas", 1>> >>,
                 reports |-> << <<"urcb01", 1>> >>] >>
    /\ dos = << [name |-> <<"PhV">>, parent |-> 1,
                 attributes |-> << <<PhsA, 1>>, <<PhsB, 2>> >>] >>
    /\ das = << [name |-> PhsA, value |-> F(2200), timestamp |-> 0,
                 quality |-> "good", parent |-> 1, trigger_callbacks |-> <<1>>],
                [name |-> PhsB, value |-> F(2195), timestamp |-> 0,
                 quality |-> "good", parent |-> 1, trigger_callbacks |-> <<1>>] >>
    /\ lists = << <<1, 2>> >>
    /\ rcbs = << NewRcb("urcb01", ReportIdOf(1), 1, 1) >>
    /\ last = [op |-> "init"]
    /\ threads = [proc |-> [t \in Writers |-> IdleThread],
                  held |-> {<<F(2200), F(2195)>>}]

NextThreads ==
    \/ \E t \in Writers, a \in 1..Len(das), v \in WriteValues :
          ThreadWrite(t, a, v)
    \/ \E t \in Writers : ThreadNotify(t)
    \/ \E t \in Writers : ThreadReadMember(t)
    \/ \E t \in Writers : ThreadDeliver(t)
    \/ \E cb \in Sinks : Enable(1, cb)

SpecThreads == InitThreads /\ [][NextThreads]_vars

\* ---------------------------------------------------------------- re-entry
\* the depth of nested setter calls at which the interpreter gives up
\* (RecursionError); Python's limit is 1000 frames
MaxDepth == 3

\* sinks that write to the server when they receive a report: each writes
\* its one value to its one attribute through the setter; "s1" only receives
WritingSinks == {"w1", "w2"}
TargetOf(sink) == 1
ValueOf(sink) == IF sink = "w1" THEN F(2255) ELSE I(2200)

\* The setter entered at nesting depth (0 for the data source's write) and
\* its callback loop (model.py:25-36) with on_data_change (model.py:168-177)
\* and the sink's own write in between: the attributes afterwards, the sink
\* calls in the order they were made (held: the values of all attributes at
\* the moment of the call), and whether the recursion limit was hit.
RECURSIVE ChainLoop(_, _, _, _)
RECURSIVE ChainWrite_always(_, _, _, _)
RECURSIVE ChainWrite(_, _, _, _)
\* a setter that notifies without comparing the values
ChainWrite_always(a, new_val, attrs, depth) ==
    IF depth > MaxDepth
    THEN [attrs |-> attrs, calls |-> <<>>, overflow |-> TRUE]
    ELSE ChainLoop(attrs[a].trigger_callbacks, a,
                   [attrs EXCEPT ![a].value = new_val, ![a].timestamp = now],
                   depth)
ChainWrite(a, new_val, attrs, depth) ==
    IF ~PyNe(attrs[a].value, new_val)
    THEN [attrs |-> attrs, calls |-> <<>>, overflow |-> FALSE]
    ELSE IF depth > MaxDepth
    THEN [attrs |-> attrs, calls |-> <<>>, overflow |-> TRUE]
    ELSE ChainLoop(attrs[a].trigger_callbacks, a,
                   [attrs EXCEPT ![a].value = new_val, ![a].timestamp = now],
                   depth)
ChainLoop(cbs, a, attrs, depth) ==
    IF cbs = <<>> THEN [attrs |-> attrs, calls |-> <<>>, overflow |-> FALSE]
    ELSE LET r == Head(cbs) IN
         IF ~(rcbs[r].enabled /\ rcbs[r].client_callback # "None")
         THEN ChainLoop(Tail(cbs), a, attrs, depth)
         ELSE LET sink == rcbs[r].client_callback
                  call == [rcb |-> r, sink |-> sink, depth |-> depth,
                           data |-> BuildData(lists[rcbs[r].dataset], attrs, <<>>),
                           held |-> ValuesOf(attrs)]
                  inner == IF sink \in WritingSinks
                           THEN ChainWrite(TargetOf(sink), ValueOf(sink),
                                           attrs, depth + 1)
                           ELSE [attrs |-> attrs, calls |-> <<>>,
                                 overflow |-> FALSE]
              IN  IF inner.overflow
                  THEN [attrs |-> inner.attrs,
                        calls |-> <<call>> \o inner.calls, overflow |-> TRUE]
                  ELSE LET rest == ChainLoop(Tail(cbs), a, inner.attrs, depth) IN
                       [attrs |-> rest.attrs,
                        calls |-> <<call>> \o inner.calls \o rest.calls,
                        overflow |-> rest.overflow]

\* a write by the data source (demo.py:84-86) on a server whose sinks may
\* write back
ExternalWrite(a, new_val) ==
    /\ LET run == ChainWrite(a, new_val, das, 0) IN
       /\ das' = run.attrs
       /\ last' = [op |-> "chain_write", da |-> a, val |-> new_val,
                   changed |-> PyNe(das[a].value, new_val),
                   calls |-> run.calls, overflow |-> run.overflow]
    /\ UNCHANGED <<mb, threads, connected_server, devices, lds, lns, dos, lists, rcbs, now>>

NextReentrant ==
    \/ \E a \in 1..Len(das), v \in WriteValues \cup {F(2195)} :
          ExternalWrite(a, v)
    \/ \E r \in 1..Len(rcbs), cb \in {"s1"} \cup WritingSinks : Enable(r, cb)
    \/ \E n \in {"urcb02"} : CreateReport(1, n, "dsMeas", ReportIdOf(1))

SpecReentrant == InitClient /\ [][NextReentrant]_vars

\* ---------------------------------------------------------------- modbus
\* AppConfig.RETRY_TIMES
RETRY_TIMES == 3

\* the variables of the IEC server model, which the Modbus wrapper leaves alone
iecVars == <<devices, lds, lns, dos, das, lists, rcbs, now, last,
             connected_server, threads>>

\* the three read_float coroutines of collect_cycle (sim_modbus.py:211-218)
\* and one write_float
Readers == {"v", "c", "p"}
Tasks == Readers \cup {"w"}

\* a coroutine that was not called: tries counts the connect calls of its
\* ensure_connected, fails those that returned False, ens is how
\* ensure_connected ended, issued whether a request was sent
IdleTask ==
    [pc |-> "idle", tries |-> 0, fails |-> 0, ens |-> "none",
     issued |-> FALSE, result |-> "none"]

\* for i in range(AppConfig.RETRY_TIMES) (sim_modbus.py:135): another round
MayRetry_four(tries) == tries < RETRY_TIMES + 1
MayRetry(tries) == tries < RETRY_TIMES

\* what a call hands back when it gives up or fails: read_float None,
\* write_float False
Failure(t) == IF t \in Readers THEN "None" ELSE "False"

\* the end of `async with self._lock`: asyncio.Lock wakes the first waiter,
\* and nobody else can take the lock before that waiter runs
Released(m, t, rec) ==
    IF m.queue = <<>>
    THEN [m EXCEPT !.holder = "none", !.task[t] = rec]
    ELSE [m EXCEPT !.holder = Head(m.queue), !.queue = Tail(m.queue),
                   !.task[t] = rec,
                   !.task[Head(m.queue)].pc = "ensure"]

\* collect_cycle (sim_modbus.py:211-218): gather starts the three reads
StartCycle ==
    /\ \A t \in Readers : mb.task[t].pc = "idle"
    /\ mb' = [mb EXCEPT !.task = [t \in Tasks |->
                  IF t \in Readers THEN [IdleTask EXCEPT !.pc = "start"]
                  ELSE mb.task[t]]]
    /\ UNCHANGED iecVars

\* gather has the three results; the next cycle may start (sim_modbus.py:218)
CycleDone ==
    /\ \A t \in Readers : mb.task[t].pc = "done"
    /\ mb' = [mb EXCEPT !.task = [t \in Tasks |->
                  IF t \in Readers THEN IdleTask ELSE mb.task[t]]]
    /\ UNCHANGED iecVars

\* a call of write_float (sim_modbus.py:176), and its return
StartWrite ==
    /\ mb.task["w"].pc = "idle"
    /\ mb' = [mb EXCEPT !.task["w"] = [IdleTask EXCEPT !.pc = "start"]]
    /\ UNCHANGED iecVars
WriteDone ==
    /\ mb.task["w"].pc = "done"
    /\ mb' = [mb EXCEPT !.task["w"] = IdleTask]
    /\ UNCHANGED iecVars

\* an entry into the locked section that does not wait for the lock
Acquire_noLock(t) ==
    /\ mb.task[t].pc = "start"
    /\ mb' = [mb EXCEPT !.holder = t, !.task[t].pc = "ensure"]
    /\ UNCHANGED iecVars
\* async with self._lock (sim_modbus.py:144, 178): asyncio.Lock.acquire takes
\* a free lock that nobody waits for, otherwise the caller waits in line
Acquire(t) ==
    /\ mb.task[t].pc = "start"
    /\ IF mb.holder = "none" /\ mb.queue = <<>>
       THEN mb' = [mb EXCEPT !.holder = t, !.task[t].pc = "ensure"]
       ELSE mb' = [mb EXCEPT !.queue = Append(@, t), !.task[t].pc = "wait"]
    /\ UNCHANGED iecVars

\* ensure_connected, the test of line 131
EnsureConnected(t) ==
    /\ mb.task[t].pc = "ensure"
    /\ IF mb.connected /\ mb.client # "None" /\ mb.link
       THEN mb' = [mb EXCEPT !.task[t].ens = "already",
                             !.task[t].pc = "request"]
       ELSE mb' = [mb EXCEPT !.task[t].pc = "connect"]
    /\ UNCHANGED iecVars

\* one round of the loop of ensure_connected: connect() (sim_modbus.py:97-120)
\* with what the network does: "up", "refused", or "exception"
WrapperConnect(t, outcome) ==
    /\ mb.task[t].pc = "connect"
    /\ LET m == [mb EXCEPT !.client = "created", !.task[t].tries = @ + 1] IN
       IF mb.client # "None" /\ mb.link
       THEN mb' = [m EXCEPT !.connected = TRUE, !.task[t].ens = "connected",
                            !.task[t].pc = "request"]
       ELSE IF outcome = "up"
       THEN mb' = [m EXCEPT !.link = TRUE, !.connected = TRUE,
                            !.task[t].ens = "connected",
                            !.task[t].pc = "request"]
       ELSE IF outcome = "refused"
       THEN mb' = [m EXCEPT !.task[t].fails = @ + 1, !.task[t].pc = "sleep"]
       ELSE mb' = [m EXCEPT !.connected = FALSE, !.task[t].fails = @ + 1,
                            !.task[t].pc = "sleep"]
    /\ UNCHANGED iecVars

\* asyncio.sleep(RETRY_DELAY) ends (sim_modbus.py:138): next round, or
\* ensure_connected returns False and the call gives up (lines 140, 145-146)
Sleep(t) ==
    /\ mb.task[t].pc = "sleep"
    /\ IF MayRetry(mb.task[t].tries)
       THEN mb' = [mb EXCEPT !.task[t].pc = "connect"]
       ELSE mb' = Released(mb, t, [mb.task[t] EXCEPT !.ens = "failed",
                                      !.result = Failure(t), !.pc = "done"])
    /\ UNCHANGED iecVars

\* the request on the underlying client and its answer (sim_modbus.py:148-174,
\* 182-199): "ok", an error response, a ModbusException, another exception
Request(t, outcome) ==
    /\ mb.task[t].pc = "request"
    /\ LET res == IF outcome = "ok"
                  THEN (IF t \in Readers THEN "float" ELSE "True")
                  ELSE Failure(t)
           drop == \/ outcome = "modbus_exception"
                   \/ outcome = "exception" /\ t \notin Readers
           m == IF drop THEN [mb EXCEPT !.connected = FALSE] ELSE mb
       IN  mb' = Released(m, t, [mb.task[t] EXCEPT !.issued = TRUE,
                                    !.result = res, !.pc = "done"])
    /\ UNCHANGED iecVars

\* the peer closes the connection: client.connected turns False
LinkDrop ==
    /\ mb.link
    /\ mb' = [mb EXCEPT !.link = FALSE]
    /\ UNCHANGED iecVars

\* ModbusClientWrapper.__init__ (sim_modbus.py:89-95); no IEC server
InitModbus ==
    /\ now = 0
    /\ connected_server = 0
    /\ threads = <<>>
    /\ devices = <<>> /\ lds = <<>> /\ lns = <<>> /\ dos = <<>> /\ das = <<>>
    /\ lists = <<>> /\ rcbs = <<>>
    /\ last = [op |-> "init"]
    /\ mb = [client |-> "None", connected |-> FALSE, link |-> FALSE,
             holder |-> "none", queue |-> <<>>,
             task |-> [t \in Tasks |-> IdleTask]]

TaskStep(t) ==
    \/ Acquire(t)
    \/ EnsureConnected(t)
    \/ \E o \in {"up", "refused", "exception"} : WrapperConnect(t, o)
    \/ Sleep(t)
    \/ \E o \in {"ok", "error", "modbus_exception", "exception"} : Request(t, o)

NextModbus ==
    \/ StartCycle
    \/ CycleDone
    \/ StartWrite
    \/ WriteDone
    \/ \E t \in Tasks : Acquire(t)
    \/ \E t \in Tasks : EnsureConnected(t)
    \/ \E t \in Tasks, o \in {"up", "refused", "exception"} : WrapperConnect(t, o)
    \/ \E t \in Tasks : Sleep(t)
    \/ \E t \in Tasks, o \in {"ok", "error", "modbus_exception", "exception"} :
          Request(t, o)
    \/ LinkDrop

SpecModbus == InitModbus /\ [][NextModbus]_vars

\* The asyncio event loop runs every coroutine that can go on: a connect
\* ends (timeout=3.0, sim_modbus.py:104), a sleep ends, a request is answered
\* or times out.
FairModbus == SpecModbus /\ \A t \in Tasks : WF_vars(TaskStep(t))

\* ================================================================ claims
\* the attributes of the dataset an RCB reports on
Members(r) ==
    {lists[rcbs[r].dataset][i] : i \in 1..Len(lists[rcbs[r].dataset])}
\* an RCB whose dataset lists no attribute twice
NoRepeat(r) ==
    Cardinality(Members(r)) = Len(lists[rcbs[r].dataset])
\* the sink calls RCB r made in the write recorded in rec
CallsBy(rec, r) == {i \in 1..Len(rec.calls) : rec.calls[i].rcb = r}
\* the elements of a sequence
Range(q) == {q[i] : i \in 1..Len(q)}
\* the data map of a report of r in the present state
Snapshot(r) == BuildData(lists[rcbs[r].dataset], das, <<>>)

\* C1: one value-changing write to a member of the dataset of an enabled RCB
\* makes that RCB call its sink exactly once, with the current values of all
\* members (stated for datasets that list no attribute twice).
C1_OneReportPerWrite ==
    (last.op = "write" /\ last.changed) =>
        \A r \in 1..Len(rcbs) :
            (rcbs[r].enabled /\ NoRepeat(r) /\ last.da \in Members(r)) =>
                /\ Cardinality(CallsBy(last, r)) = 1
                /\ \A i \in CallsBy(last, r) : last.calls[i].data = Snapshot(r)

\* C2: a write of a value equal (by value) to the current one leaves the
\* attribute's value, timestamp, quality and everything else of it as they
\* were, enters no subscriber callback and calls no sink.
C2_NoOpWrite ==
    (last.op = "write" /\ last.before.value.n = last.val.n) =>
        /\ das[last.da] = last.before
        /\ ~last.changed
        /\ last.notified = <<>>
        /\ last.calls = <<>>
        /\ ~last.raised

\* C2 witness: an int is written over the equal float of an attribute that an
\* enabled RCB subscribes to, after the clock has moved on.
C2_Witness ==
    /\ last.op = "write"
    /\ last.before.value.n = last.val.n
    /\ last.before.value # last.val
    /\ now > last.before.timestamp
    /\ \E r \in Range(das[last.da].trigger_callbacks) : rcbs[r].enabled

\* C3: after enable and then disable, a value-changing write to a member
\* makes the RCB call no sink (stated for the write that follows the disable).
C3_DisabledIsSilent ==
    [][(/\ last.op = "disable"
        /\ last.before.enabled
        /\ last'.op = "write"
        /\ last'.changed
        /\ last'.da \in Members(last.rcb))
       => CallsBy(last', last.rcb) = {}]_vars

\* C5 (as claimed): every report carries the reason "data-change".
C5_ReasonDataChange ==
    last.op = "write" =>
        \A i \in 1..Len(last.calls) : last.calls[i].reason = "data-change"

\* the full paths of the demo's two attributes (demo.py:69)
PathA ==
    <<"Protection", "/", "MMXU1", ".", "PhV", ".",
      "phsA", ".", "cVal", ".", "mag", ".", "f">>
PathB ==
    <<"Protection", "/", "MMXU1", ".", "PhV", ".",
      "phsB", ".", "cVal", ".", "mag", ".", "f">>

\* the reference scenario: urcb01 of MMXU1 is bound to dsMeas = [phsA, phsB],
\* is enabled and is the one subscriber of phsA, phsB is 219.5, and phsA has
\* just been written from 220.0 to 225.5
DemoScenario(r) ==
    /\ last.op = "write" /\ last.da = 1
    /\ last.before.value = F(2200) /\ last.val = F(2255)
    /\ das[2].value = F(2195)
    /\ rcbs[r].name = "urcb01" /\ rcbs[r].parent = 1
    /\ DictHas(lns[1].datasets, "dsMeas")
    /\ DictGet(lns[1].datasets, "dsMeas") = rcbs[r].dataset
    /\ lists[rcbs[r].dataset] = <<1, 2>>
    /\ rcbs[r].enabled
    /\ das[1].trigger_callbacks = <<r>>

\* C5 (amended): every report is (report_id, data, reason) with the report id
\* the RCB was created with, the reason "dchg", and data keyed by the full
\* paths of the dataset members with their current values; in the reference
\* scenario the sink is called once, with both voltages.
C5_Payload ==
    last.op = "write" =>
        /\ \A i \in 1..Len(last.calls) :
              LET c == last.calls[i]
                  r == c.rcb
              IN  /\ c.rpt_id = rcbs[r].rpt_id
                  /\ c.rpt_id = ReportIdOf(rcbs[r].parent)
                  /\ c.sink = rcbs[r].client_callback
                  /\ c.reason = "dchg"
                  /\ Range(DictKeys(c.data)) = {DaPath(a) : a \in Members(r)}
                  /\ \A a \in Members(r) :
                        /\ DictHas(c.data, DaPath(a))
                        /\ DictGet(c.data, DaPath(a)) = das[a].value
        /\ \A r \in 1..Len(rcbs) :
              DemoScenario(r) =>
                  /\ Len(last.calls) = 1
                  /\ last.calls[1].rpt_id = "MyIED/Protection/MMXU1$RP$urcb01"
                  /\ last.calls[1].data =
                        << <<PathA, F(2255)>>, <<PathB, F(2195)>> >>
                  /\ last.calls[1].reason = "dchg"

\* C5 witness: the reference scenario has happened.
C5_Witness == \E r \in 1..Len(rcbs) : DemoScenario(r)

\* C6: on a value-changing write every subscriber of the attribute is
\* entered, whichever sink fails, and no failure reaches the writer.
C6_FailureContained ==
    (last.op = "write" /\ last.changed) =>
        /\ ~last.raised
        /\ last.notified = das[last.da].trigger_callbacks

\* C7: after the sink of an RCB failed on a report, the RCB is as enabled as
\* before and the next value-changing write to a member makes it call its
\* sink exactly once with the values current then (stated for datasets that
\* list no attribute twice).
C7_FailedDeliveryKeepsRcb ==
    [][(/\ last.op = "write"
        /\ last.raised
        /\ last'.op = "write"
        /\ last'.changed
        /\ NoRepeat(last.calls[Len(last.calls)].rcb)
        /\ last'.da \in Members(last.calls[Len(last.calls)].rcb))
       => LET r == last.calls[Len(last.calls)].rcb IN
          /\ rcbs'[r] = rcbs[r]
          /\ Cardinality(CallsBy(last', r)) = 1
          /\ \A i \in CallsBy(last', r) :
                last'.calls[i].data = BuildData(lists[rcbs[r].dataset], das', <<>>)]_vars

\* C8: create_report with a dataset name that its logical node has not
\* registered raises, adds no RCB and no subscriber; an RCB that is created is
\* bound to the list its own node had registered under that name.
C8_CreateReportChecksDataset ==
    [][(last' # last /\ last'.op = "create_report")
       => IF ~DictHas(lns[last'.ln].datasets, last'.dataset_name)
          THEN /\ last'.error = "ValueError"
               /\ UNCHANGED <<mb, threads, connected_server, devices, lds, lns, dos, das, lists, rcbs>>
          ELSE /\ last'.error = "none"
               /\ rcbs' = Append(rcbs, rcbs'[last'.rcb])
               /\ rcbs'[last'.rcb].parent = last'.ln
               /\ rcbs'[last'.rcb].dataset =
                     DictGet(lns[last'.ln].datasets, last'.dataset_name)
               /\ DictGet(lns'[last'.ln].reports, last'.name) = last'.rcb]_vars

\* C8 witness: create_report has failed on a node for a dataset name that
\* the other node has registered.
C8_Witness ==
    /\ last.op = "create_report"
    /\ last.error = "ValueError"
    /\ \E l \in 1..Len(lns) :
          l # last.ln /\ DictHas(lns[l].datasets, last.dataset_name)

\* C9: a new RCB is disabled, has no sink and is subscribed to every member
\* of its dataset; an RCB that is not enabled calls no sink on any write.
C9_CreatedIsSilent ==
    /\ (last.op = "create_report" /\ last.error = "none") =>
          /\ ~rcbs[last.rcb].enabled
          /\ rcbs[last.rcb].client_callback = "None"
          /\ \A a \in Members(last.rcb) :
                last.rcb \in Range(das[a].trigger_callbacks)
    /\ last.op = "write" =>
          \A r \in 1..Len(rcbs) : ~rcbs[r].enabled => CallsBy(last, r) = {}

\* C9 witness: a value-changing write to a member has entered the callback of
\* an RCB that was never enabled, while another RCB reported it.
C9_Witness ==
    /\ last.op = "write" /\ last.changed
    /\ \E r \in Range(last.notified) :
          ~rcbs[r].enabled /\ last.da \in Members(r)
    /\ last.calls # <<>>

\* C10: after enable(s1) and enable(s2) the next value-changing write to a
\* member makes the RCB call s2 exactly once and s1 never (stated for the
\* write that follows the enable, on datasets that list no attribute twice).
C10_EnableReplacesSink ==
    [][(/\ last.op = "enable"
        /\ last'.op = "write"
        /\ last'.changed
        /\ NoRepeat(last.rcb)
        /\ last'.da \in Members(last.rcb))
       => /\ rcbs[last.rcb].enabled
          /\ rcbs[last.rcb].client_callback = last.callback
          /\ Cardinality(CallsBy(last', last.rcb)) = 1
          /\ \A i \in CallsBy(last', last.rcb) :
                last'.calls[i].sink = last.callback]_vars

\* a name without the separator sep
Plain(name, sep) == \A i \in 1..Len(name) : name[i] # sep

\* C4: resolving the full path of any attribute that was created returns that
\* attribute (stated for attributes under a logical device whose name has no
\* "/" and a logical node and data object whose names have no ".").
C4_ResolveRoundTrip ==
    \A a \in 1..Len(das) :
        LET o == das[a].parent
            l == dos[o].parent
            d == lns[l].parent
        IN  (Plain(lds[d].name, "/") /\ Plain(lns[l].name, ".")
                /\ Plain(dos[o].name, "."))
            => GetAttributeByPath(DaPath(a)) = a

\* C11: create_dataset with an empty member list fails and registers no
\* dataset on the logical node.
C11_EmptyDatasetRejected ==
    (last.op = "create_dataset" /\ lists[last.list] = <<>>) =>
        ~DictHas(lns[last.ln].datasets, last.name)

\* every entry of the dict d is still in the dict e, under the same child
Kept(d, e) ==
    \A i \in 1..Len(d) : DictHas(e, d[i][1]) /\ DictGet(e, d[i][1]) = d[i][2]

\* C12: adding a child under a name that exists at that level (add_ld,
\* add_ln, add_do, add_da) leaves the existing child in place: no step
\* replaces the child registered under a name.
C12_ExistingChildKept ==
    [][/\ Kept(devices, devices')
       /\ \A d \in 1..Len(lds) : Kept(lds[d].nodes, lds'[d].nodes)
       /\ \A l \in 1..Len(lns) : Kept(lns[l].objects, lns'[l].objects)
       /\ \A o \in 1..Len(dos) : Kept(dos[o].attributes, dos'[o].attributes)]_vars

\* C13: create_dataset under a name already registered on the logical node
\* leaves the dataset registered under that name with the member sequence
\* it had.
C13_DuplicateDatasetKept ==
    [][(/\ last'.op = "create_dataset"
        /\ Len(lists') > Len(lists)
        /\ DictHas(lns[last'.ln].datasets, last'.name)) =>
           lists'[DictGet(lns'[last'.ln].datasets, last'.name)] =
               lists[DictGet(lns[last'.ln].datasets, last'.name)]]_vars

\* C19: dataset membership is immutable: no step (create_dataset,
\* create_report, a change the caller makes to the list it passed) changes
\* the member sequence registered under a dataset name or the member
\* sequence an RCB reports on.
C19_MembershipImmutable ==
    [][/\ \A l \in 1..Len(lns) : \A i \in 1..Len(lns[l].datasets) :
            LET n == lns[l].datasets[i][1] IN
            /\ DictHas(lns'[l].datasets, n)
            /\ lists'[DictGet(lns'[l].datasets, n)] = lists[lns[l].datasets[i][2]]
       /\ \A r \in 1..Len(rcbs) :
            lists'[rcbs'[r].dataset] = lists[rcbs[r].dataset]]_vars

\* the registered chains of the server: the keys under which a device, a
\* node of it, an object of that node and an attribute of that object are
\* registered, and the attribute
Chains ==
    UNION {UNION {UNION {
        {[kd |-> devices[i][1],
          kl |-> lds[devices[i][2]].nodes[j][1],
          ko |-> lns[lds[devices[i][2]].nodes[j][2]].objects[k][1],
          ka |-> dos[lns[lds[devices[i][2]].nodes[j][2]].objects[k][2]].attributes[m][1],
          da |-> dos[lns[lds[devices[i][2]].nodes[j][2]].objects[k][2]].attributes[m][2]] :
            m \in 1..Len(dos[lns[lds[devices[i][2]].nodes[j][2]].objects[k][2]].attributes)} :
            k \in 1..Len(lns[lds[devices[i][2]].nodes[j][2]].objects)} :
            j \in 1..Len(lds[devices[i][2]].nodes)} :
            i \in 1..Len(devices)}

\* the path a chain of keys spells
Spelling(c) == c.kd \o <<"/">> \o c.kl \o <<".">> \o c.ko \o <<".">> \o c.ka

\* key is a piece of the string path
Segment(key, path) ==
    \E i \in 1..(Len(path) + 1), j \in 0..Len(path) : SubSeq(path, i, j) = key

\* C14 (original statement): resolving a malformed path or a path with a
\* missing segment fails with an error raised to the caller.
C14_PathNotFoundRaised ==
    (last.op = "resolve" /\ \A c \in Chains : Spelling(c) # last.path)
        => last.raised

\* C14 (amended): resolve never raises; a malformed path or a path with a
\* missing segment returns None after the exception is caught (ValueError
\* for a path without "/", KeyError carrying a piece of the path for a
\* missing key); a result other than None is the attribute at the end of a
\* registered chain that spells the path, never a partial or default one.
C14_UnresolvedIsNone ==
    last.op = "resolve" =>
        /\ ~last.raised
        /\ (last.result = 0) <=> (last.caught # <<"none">>)
        /\ (\A c \in Chains : Spelling(c) # last.path) => last.result = 0
        /\ last.result # 0 =>
              \E c \in Chains : Spelling(c) = last.path /\ c.da = last.result
        /\ Plain(last.path, "/") => last.caught = <<"ValueError">>
        /\ last.caught[1] = "KeyError" => Segment(last.caught[2], last.path)

\* a lookup that fails on a missing key while attributes exist
C14_Witness ==
    /\ last.op = "resolve"
    /\ last.result = 0
    /\ last.caught[1] = "KeyError"
    /\ Len(das) > 0

\* C15 (original statement): a read before connect fails with
\* NotConnectedError, a read of an unresolvable path on a connected client
\* fails with PathNotFoundError, and a successful read returns the pair
\* (value, timestamp) of the resolved attribute.
C15_ReadRaisesOrPair ==
    last.op = "read" =>
        IF connected_server = 0 \/ \A c \in Chains : Spelling(c) # last.path
        THEN last.raised
        ELSE \E c \in Chains :
                /\ Spelling(c) = last.path
                /\ last.returned = [kind |-> "pair", value |-> das[c.da].value,
                                    timestamp |-> das[c.da].timestamp]

\* C15 (amended): a read never raises; before connect and for an
\* unresolvable path on a connected client it returns None; a successful
\* read returns the value of the resolved attribute alone, without the
\* timestamp.
C15_ReadReturnsValueOrNone ==
    last.op = "read" =>
        /\ ~last.raised
        /\ IF connected_server = 0 \/ \A c \in Chains : Spelling(c) # last.path
           THEN last.returned = [kind |-> "None"]
           ELSE \E c \in Chains :
                   /\ Spelling(c) = last.path
                   /\ last.returned = [kind |-> "value", value |-> das[c.da].value]

\* a successful read of an attribute written after the clock moved on
C15_Witness ==
    /\ last.op = "read"
    /\ connected_server = 1
    /\ last.returned.kind = "value"
    /\ last.returned.value = F(2255)
    /\ \E c \in Chains : Spelling(c) = last.path /\ das[c.da].timestamp > 0

\* the RCB registered under (ld, ln, rcb_name) of the last enable_report, or
\* 0 when the logical device, the logical node or the RCB name is missing
Located ==
    IF \E i \in 1..Len(devices) : devices[i][1] = last.ld
    THEN LET d == devices[CHOOSE i \in 1..Len(devices) : devices[i][1] = last.ld][2] IN
         IF \E j \in 1..Len(lds[d].nodes) : lds[d].nodes[j][1] = last.ln
         THEN LET l == lds[d].nodes[CHOOSE j \in 1..Len(lds[d].nodes) :
                                        lds[d].nodes[j][1] = last.ln][2] IN
              IF \E k \in 1..Len(lns[l].reports) : lns[l].reports[k][1] = last.rcb_name
              THEN lns[l].reports[CHOOSE k \in 1..Len(lns[l].reports) :
                                      lns[l].reports[k][1] = last.rcb_name][2]
              ELSE 0
         ELSE 0
    ELSE 0

\* C16 (original statement): enable_report fails with RcbNotFoundError
\* whenever the logical device, the logical node or the RCB name does not
\* exist, leaving every RCB unchanged; when all three exist it enables
\* exactly that RCB and no other.
C16_RcbNotFoundRaised ==
    last.op = "enable_report" =>
        IF Located = 0
        THEN last.raised /\ last.error = "RcbNotFoundError" /\ rcbs = last.before
        ELSE /\ rcbs[Located].enabled
             /\ \A r \in 1..Len(rcbs) : r # Located => rcbs[r] = last.before[r]

\* C16 (amended): on a connected client, enable_report with a missing
\* logical device, logical node or RCB name raises nothing (the KeyError is
\* caught and reported by a printed message) and leaves every RCB unchanged;
\* when all three exist it enables exactly that RCB with the client's own
\* sink and changes no other RCB; on a client that is not connected the call
\* raises AttributeError and changes no RCB.
C16_EnableReportLocates ==
    last.op = "enable_report" =>
        IF connected_server = 0
        THEN last.raised /\ last.error = "AttributeError" /\ rcbs = last.before
        ELSE IF Located = 0
        THEN ~last.raised /\ last.error = "KeyError" /\ rcbs = last.before
        ELSE /\ ~last.raised
             /\ rcbs[Located].enabled
             /\ rcbs[Located].client_callback = ClientSink
             /\ rcbs = [last.before EXCEPT ![Located].enabled = TRUE,
                                           ![Located].client_callback = ClientSink]

\* urcb01 enabled through the gateway while a second RCB exists and stays
\* disabled
C16_Witness ==
    /\ last.op = "enable_report"
    /\ Len(rcbs) = 2
    /\ Located = 1
    /\ rcbs[1].enabled
    /\ ~rcbs[2].enabled

C18_TwoRcbsInOrder ==
    (last.op = "write" /\ last.changed) =>
        \A r1, r2 \in 1..Len(rcbs) :
            (/\ r1 < r2
             /\ rcbs[r1].enabled /\ rcbs[r2].enabled
             /\ NoRepeat(r1) /\ NoRepeat(r2)
             /\ last.da \in Members(r1) \cap Members(r2)) =>
                /\ Cardinality(CallsBy(last, r1)) = 1
                /\ Cardinality(CallsBy(last, r2)) = 1
                /\ \A i \in CallsBy(last, r1), j \in CallsBy(last, r2) : i < j

\* the number of tokens sep in the string s
Count(s, sep) == Cardinality({i \in 1..Len(s) : s[i] = sep})

\* the registered chains that spell the last resolved path with a device key
\* free of "/" and node and object keys free of "."
GrammarChains ==
    {c \in Chains : /\ Spelling(c) = last.path
                    /\ Plain(c.kd, "/") /\ Plain(c.kl, ".") /\ Plain(c.ko, ".")}

\* C20 (original statement): a path is accepted only with exactly one "/".
C20_ExactlyOneSlash ==
    (last.op = "resolve" /\ last.result # 0) => Count(last.path, "/") = 1

\* C20 (amended): the path is cut at its first "/" (device before it), the
\* rest at its first "." (node before it) and the remainder at its next "."
\* (object before it); what is left, further "." and "/" included, is the
\* attribute name looked up verbatim. A path resolves exactly to the
\* attribute of the registered chain that spells it this way; "/" after the
\* first one are part of the node, object or attribute name.
C20_PathGrammar ==
    last.op = "resolve" =>
        /\ last.result # 0 => \E c \in GrammarChains : c.da = last.result
        /\ \A c \in GrammarChains : last.result = c.da

\* a path with two "/" and an attribute name with dots both resolve
C20_Witness ==
    /\ last.op = "resolve"
    /\ last.result # 0
    /\ Count(last.path, "/") = 2
    /\ \E a \in 1..Len(das) :
          das[a].name = PhsA /\ GetAttributeByPath(DaPath(a)) = a

\* C21: from its creation on, in every reachable state, an RCB's change
\* callback is registered on every member attribute of its dataset.
C21_SubscribedToEveryMember ==
    \A r \in 1..Len(rcbs) : \A a \in Members(r) :
        r \in Range(das[a].trigger_callbacks)

\* C22: after a value-changing write the attribute has the new value, the
\* time of the write as timestamp and quality good, whatever the quality
\* was before; the subscribers ran on the attribute as it is then.
C22_WriteSetsQualityGood ==
    (last.op = "write" /\ last.changed) =>
        /\ das[last.da].value = last.val
        /\ das[last.da].timestamp >= last.before.timestamp
        /\ das[last.da].quality = "good"

\* the names of the entries of one level in a directory listing, in order
LevelNames(listing, level) ==
    LET IsLevel(e) == e[1] = level
        es == SelectSeq(listing, IsLevel)
    IN  [i \in 1..Len(es) |-> es[i][2]]

\* the registered logical devices, nodes and objects in dict order, parents
\* first to last
LdsInOrder == [i \in 1..Len(devices) |-> devices[i][2]]
LnsInOrder ==
    Flat([i \in 1..Len(LdsInOrder) |->
        [j \in 1..Len(lds[LdsInOrder[i]].nodes) |-> lds[LdsInOrder[i]].nodes[j][2]]])
DosInOrder ==
    Flat([i \in 1..Len(LnsInOrder) |->
        [k \in 1..Len(lns[LnsInOrder[i]].objects) |-> lns[LnsInOrder[i]].objects[k][2]]])

\* C23: read_value and get_server_directory change no attribute, no
\* subscriber list, no RCB and nothing of the tree; two directory listings
\* with no operation in between are equal; a listing names the children of
\* each level in the order of their dicts, and a child added under a new
\* name is the last of its dict (insertion order).
C23_ReadAndBrowsePure ==
    [][/\ last'.op \in {"read", "directory"} =>
             /\ das' = das /\ rcbs' = rcbs /\ lists' = lists
             /\ devices' = devices /\ lds' = lds /\ lns' = lns /\ dos' = dos
       /\ (last.op = "directory" /\ last'.op = "directory"
              /\ last.connected = last'.connected) =>
             last'.listing = last.listing
       /\ (last'.op = "directory" /\ last'.connected) =>
             /\ LevelNames(last'.listing, "LD") = DictKeys(devices)
             /\ LevelNames(last'.listing, "LN") =
                   Flat([i \in 1..Len(LdsInOrder) |->
                            DictKeys(lds[LdsInOrder[i]].nodes)])
             /\ LevelNames(last'.listing, "DO") =
                   Flat([i \in 1..Len(LnsInOrder) |->
                            DictKeys(lns[LnsInOrder[i]].objects)])
             /\ LevelNames(last'.listing, "DA") =
                   Flat([i \in 1..Len(DosInOrder) |->
                            DictKeys(dos[DosInOrder[i]].attributes)])
       /\ (last'.op = "add_ln" /\ Len(lns') > Len(lns)) =>
             LET ns == lds'[last'.parent].nodes IN
             ns[Len(ns)] = <<last'.name, last'.new>>
       /\ (last'.op = "add_do" /\ Len(dos') > Len(dos)) =>
             LET os == lns'[last'.parent].objects IN
             os[Len(os)] = <<last'.name, last'.new>>]_vars

\* a listing of the grown tree while an RCB is enabled and the clock moved
C23_Witness ==
    /\ last.op = "directory" /\ last.connected
    /\ Len(last.listing) = 7
    /\ now > 0
    /\ \E a \in 1..Len(das) : das[a].timestamp < now
    /\ \E r \in 1..Len(rcbs) : rcbs[r].enabled

\* C24: under concurrent writers every delivered report snapshot carries
\* the values all members of the dataset held together at one instant of
\* the execution.
C24_SnapshotIsPointInTime ==
    last.op = "report" =>
        \E h \in threads.held :
            \A i \in 1..Len(lists[rcbs[last.rcb].dataset]) :
                LET a == lists[rcbs[last.rcb].dataset][i] IN
                DictGet(last.data, DaPath(a)) = h[a]

\* C25: for an enabled RCB, the number of sink calls one value-changing
\* write to an attribute causes equals the number of times the attribute
\* occurs in the member sequence of the RCB's dataset.
C25_CallsPerOccurrence ==
    (last.op = "write" /\ last.changed) =>
        \A r \in 1..Len(rcbs) :
            rcbs[r].enabled =>
                Cardinality(CallsBy(last, r)) =
                    Occurrences(lists[rcbs[r].dataset], last.da)

\* C26: only RCBs registered in the reports map of a logical node deliver:
\* every sink call of a write is made by an RCB that some node's reports
\* map holds, so an RCB replaced under its name delivers nothing.
C26_OnlyRegisteredRcbsDeliver ==
    last.op = "write" =>
        \A i \in 1..Len(last.calls) :
            \E l \in 1..Len(lns) : \E k \in 1..Len(lns[l].reports) :
                lns[l].reports[k][2] = last.calls[i].rcb

\* C27: a write to an attribute that is a member of no dataset an RCB is
\* bound to calls no sink; a write changes nothing but the value and the
\* timestamp of the written attribute: every other attribute, every
\* quality and subscriber list, every RCB and the tree stay as they were.
C27_WriteFrame ==
    [][last'.op = "write" =>
          /\ (\A r \in 1..Len(rcbs) : last'.da \notin Members(r)) =>
                last'.calls = <<>> /\ last'.notified = <<>>
          /\ \A a \in 1..Len(das) : a # last'.da => das'[a] = das[a]
          /\ das'[last'.da] = [das[last'.da] EXCEPT
                                  !.value = das'[last'.da].value,
                                  !.timestamp = das'[last'.da].timestamp]
          /\ Len(das') = Len(das)
          /\ rcbs' = rcbs /\ lists' = lists
          /\ devices' = devices /\ lds' = lds /\ lns' = lns /\ dos' = dos]_vars

\* a value-changing write to phsB while an enabled RCB reports on a dataset
\* that holds phsA only
C27_Witness ==
    /\ last.op = "write" /\ last.changed /\ last.da = 2
    /\ \E r \in 1..Len(rcbs) : rcbs[r].enabled /\ Members(r) = {1}
    /\ \A r \in 1..Len(rcbs) : 2 \notin Members(r)
    /\ last.calls = <<>>

\* the sinks of the enabled RCBs that write back
WritersEnabled ==
    {rcbs[r].client_callback : r \in {q \in 1..Len(rcbs) : rcbs[q].enabled}}
        \cap WritingSinks

\* C28: with one sink that writes its fixed value to a member of its own
\* dataset on every report, a write by the data source returns (the
\* recursion ends), no report is delivered deeper than one nested round,
\* and every report delivered in the chain carries the values the members
\* hold at the moment of its delivery: the first one the written value, the
\* last one the values the server is left with.
C28_ReentrantChainTerminates ==
    (last.op = "chain_write" /\ Cardinality(WritersEnabled) <= 1) =>
        /\ ~last.overflow
        /\ \A i \in 1..Len(last.calls) :
              /\ last.calls[i].depth <= 1
              /\ \A k \in 1..Len(lists[rcbs[last.calls[i].rcb].dataset]) :
                    LET a == lists[rcbs[last.calls[i].rcb].dataset][k] IN
                    DictGet(last.calls[i].data, DaPath(a)) = last.calls[i].held[a]
        /\ last.calls # <<>> =>
              /\ last.calls[1].held[last.da] = last.val
              /\ last.calls[Len(last.calls)].held = ValuesOf(das)

\* a chain in which the sink's write changed the value and caused a nested
\* round of reports
C28_Witness ==
    /\ last.op = "chain_write"
    /\ Cardinality(WritersEnabled) = 1
    /\ ~last.overflow
    /\ \E i \in 1..Len(last.calls) : last.calls[i].depth = 1
    /\ das[1].value # last.val

\* C29: ensure_connected returns True without a connect call when the
\* wrapper is connected; otherwise it calls connect at most RETRY_TIMES
\* times, returns True at the first call that succeeds and False only after
\* RETRY_TIMES calls failed; a call whose ensure_connected returned False
\* sends no request and hands back None (read_float) or False (write_float).
C29_BoundedReconnect ==
    [][\A t \in Tasks :
          LET k == mb'.task[t] IN
          /\ k.tries <= RETRY_TIMES
          /\ k.ens = "already" => k.tries = 0
          /\ k.ens = "connected" => k.tries >= 1 /\ k.fails = k.tries - 1
          /\ k.ens = "failed" =>
                /\ k.fails = RETRY_TIMES /\ k.tries = RETRY_TIMES
                /\ ~k.issued
                /\ k.result = (IF t \in Readers THEN "None" ELSE "False")
          /\ k.issued => k.ens \in {"already", "connected"}
          /\ k.pc = "request" => k.ens \in {"already", "connected"}
          /\ k.pc = "done" => k.ens \in {"already", "connected", "failed"}
          /\ (mb.task[t].pc = "ensure" /\ k.pc # "ensure"
                 /\ mb.connected /\ mb.client # "None" /\ mb.link) =>
                k.pc = "request" /\ k.tries = 0 /\ k.ens = "already"
          /\ (mb.task[t].pc = "ensure" /\ k.pc # "ensure"
                 /\ ~(mb.connected /\ mb.client # "None" /\ mb.link)) =>
                k.pc = "connect"]_vars

\* a read_float that gave up after three failed connects, and a write_float
\* that found the wrapper connected
C29_Witness ==
    /\ \E t \in Readers :
          /\ mb.task[t].pc = "done" /\ mb.task[t].ens = "failed"
          /\ mb.task[t].result = "None"
    /\ mb.task["w"].ens = "already"

\* the tasks inside the section `async with self._lock` guards
InSection == {t \in Tasks : mb.task[t].pc \in {"ensure", "connect", "sleep", "request"}}

\* C30: at most one call at a time is inside its reconnect-and-request
\* section, and it is the holder of the lock; every call that was started
\* gets the lock and returns a result.
C30_ExclusiveAndLive ==
    /\ [](Cardinality(InSection) <= 1 /\ \A t \in InSection : mb.holder = t)
    /\ \A t \in Tasks :
          (mb.task[t].pc = "start") ~>
              (mb.task[t].pc = "done" /\ mb.task[t].result # "none")

\* one read is sending its request while the two other reads of the cycle
\* and the write wait for the lock
C30_Witness ==
    /\ \E t \in Readers : mb.task[t].pc = "request"
    /\ Len(mb.queue) = 3
    /\ mb.task["w"].pc = "wait"
====
